---- MODULE Spec2Model ----
(***************************************************************************)
(* Model of src/lib.rs: ImplQueryImageInterface::get_details, the single   *)
(* registry query (one GET, then either the docker-content-digest header   *)
(* or the body plus the pagination link).                                  *)
(*                                                                         *)
(* Text is modelled as a sequence of one-byte characters.  A character is  *)
(* a one-letter string for the printable ASCII bytes 32..126 ("GRAVE" for  *)
(* byte 96); the strings "HT", "LF", "DEL" and "xE9" stand for the single  *)
(* bytes 9, 10, 127 and 233 (a byte outside ASCII, as a header value may   *)
(* carry).                                                                 *)
(***************************************************************************)
EXTENDS Integers, Sequences, FiniteSets, TLC

(***************************************************************************)
(* Bound of the model.                                                     *)
(***************************************************************************)
\* number of call slots: get_details futures that may be in flight at once
NumCalls == 2

Calls == 1..NumCalls

(***************************************************************************)
(* Bytes and text.                                                         *)
(***************************************************************************)
\* the printable ASCII characters in the order of their codes 32..126
AsciiPrintable ==
    <<" ", "!", "\"", "#", "$", "%", "&", "'", "(", ")", "*", "+", ",", "-",
      ".", "/", "0", "1", "2", "3", "4", "5", "6", "7", "8", "9", ":", ";",
      "<", "=", ">", "?", "@", "A", "B", "C", "D", "E", "F", "G", "H", "I",
      "J", "K", "L", "M", "N", "O", "P", "Q", "R", "S", "T", "U", "V", "W",
      "X", "Y", "Z", "[", "\\", "]", "^", "_", "GRAVE", "a", "b", "c", "d", "e",
      "f", "g", "h", "i", "j", "k", "l", "m", "n", "o", "p", "q", "r", "s",
      "t", "u", "v", "w", "x", "y", "z", "{", "|", "}", "~">>

\* the byte value of a character
Code(ch) ==
    IF ch = "HT" THEN 9
    ELSE IF ch = "LF" THEN 10
    ELSE IF ch = "DEL" THEN 127
    ELSE IF ch = "xE9" THEN 233
    ELSE 31 + (CHOOSE i \in 1..Len(AsciiPrintable) : AsciiPrintable[i] = ch)

\* the character of a printable byte value
Chr(n) == AsciiPrintable[n - 31]

\* char::to_lowercase on one ASCII character
LowerChar(ch) ==
    IF Code(ch) >= 65 /\ Code(ch) <= 90 THEN Chr(Code(ch) + 32) ELSE ch

\* str::to_lowercase
to_lowercase(s) == [i \in 1..Len(s) |-> LowerChar(s[i])]

\* does pat occur in s at position i
MatchAt(s, pat, i) ==
    /\ i >= 1
    /\ i + Len(pat) - 1 <= Len(s)
    /\ SubSeq(s, i, i + Len(pat) - 1) = pat

\* str::replace, scanning s from position i: every match of the non-empty
\* pattern, found left to right without overlap, becomes to
RECURSIVE ReplaceFrom(_, _, _, _)
ReplaceFrom(s, from, to, i) ==
    IF i > Len(s) THEN <<>>
    ELSE IF MatchAt(s, from, i)
         THEN to \o ReplaceFrom(s, from, to, i + Len(from))
         ELSE <<s[i]>> \o ReplaceFrom(s, from, to, i + 1)

replace(s, from, to) == ReplaceFrom(s, from, to, 1)

\* the decimal digits of a natural number
RECURSIVE Digits(_)
Digits(n) ==
    IF n < 10 THEN <<Chr(48 + n)>>
    ELSE Digits(n \div 10) \o <<Chr(48 + (n % 10))>>

(***************************************************************************)
(* Option<T> and the literals of the source.                               *)
(***************************************************************************)
None == [some |-> FALSE, val |-> <<>>]
Some(v) == [some |-> TRUE, val |-> v]

HTTPS == <<"h", "t", "t", "p", "s">>
HTTP == <<"h", "t", "t", "p">>
BEARER == <<"B", "e", "a", "r", "e", "r">>
LT == <<"<">>
GT == <<">">>
REL_NEXT == <<";", " ", "r", "e", "l", "=", "\"", "n", "e", "x", "t", "\"">>
USER_AGENT_VALUE == <<"i", "m", "a", "g", "e", "-", "m", "i", "r", "r", "o", "r">>
CONTENT_TYPE_VALUE ==
    <<"a", "p", "p", "l", "i", "c", "a", "t", "i", "o", "n", "/", "j", "s", "o", "n">>
ACCEPT_VALUE ==
    <<"a", "p", "p", "l", "i", "c", "a", "t", "i", "o", "n", "/", "v", "n", "d",
      ".", "d", "o", "c", "k", "e", "r", ".", "d", "i", "s", "t", "r", "i", "b",
      "u", "t", "i", "o", "n", ".", "m", "a", "n", "i", "f", "e", "s", "t", ".",
      "l", "i", "s", "t", ".", "v", "2", "+", "j", "s", "o", "n", ",", "a", "p",
      "p", "l", "i", "c", "a", "t", "i", "o", "n", "/", "v", "n", "d", ".", "o",
      "c", "i", ".", "i", "m", "a", "g", "e", ".", "i", "n", "d", "e", "x", ".",
      "v", "1", "+", "j", "s", "o", "n", ",", "a", "p", "p", "l", "i", "c", "a",
      "t", "i", "o", "n", "/", "v", "n", "d", ".", "o", "c", "i", ".", "i", "m",
      "a", "g", "e", ".", "m", "a", "n", "i", "f", "e", "s", "t", ".", "v", "1",
      "+", "j", "s", "o", "n">>
ERR_PREFIX ==
    <<"[", "g", "e", "t", "_", "d", "e", "t", "a", "i", "l", "s", "]", " ">>
ERR_BODY_PREFIX ==
    <<"[", "g", "e", "t", "_", "d", "e", "t", "a", "i", "l", "s", "]", " ", "c",
      "o", "u", "l", "d", " ", "n", "o", "t", " ", "r", "e", "a", "d", " ", "b",
      "o", "d", "y", " ", "c", "o", "n", "t", "e", "n", "t", "s", " ">>

(***************************************************************************)
(* reqwest / http values the function works with.                          *)
(***************************************************************************)
\* HeaderValue::from_str accepts a byte b iff b >= 32 && b != 127 || b == '\t'
HeaderValueFromStrOk(s) ==
    \A i \in 1..Len(s) :
        (Code(s[i]) >= 32 /\ Code(s[i]) # 127) \/ Code(s[i]) = 9

\* HeaderValue::to_str succeeds iff every byte is visible ASCII or a tab
HeaderValueToStrOk(v) ==
    \A i \in 1..Len(v) :
        (Code(v[i]) >= 32 /\ Code(v[i]) < 127) \/ Code(v[i]) = 9

RequestHeaderNames == {"user-agent", "authorization", "accept", "content-type"}
ResponseHeaderNames == {"docker-content-digest", "link"}

\* HeaderMap::new
EmptyHeaderMap == [n \in RequestHeaderNames |-> None]

\* StatusCode::canonical_reason for the statuses the servers of the model send
CanonicalReason(status) ==
    IF status = 200 THEN <<"O", "K">>
    ELSE IF status = 201 THEN <<"C", "r", "e", "a", "t", "e", "d">>
    ELSE IF status = 500
         THEN <<"I", "n", "t", "e", "r", "n", "a", "l", " ", "S", "e", "r", "v",
                "e", "r", " ", "E", "r", "r", "o", "r">>
    ELSE <<"<", "u", "n", "k", "n", "o", "w", "n", " ", "s", "t", "a", "t", "u",
           "s", " ", "c", "o", "d", "e", ">">>

\* Display of StatusCode: "{code} {canonical reason}"
StatusDisplay(status) == Digits(status) \o <<" ">> \o CanonicalReason(status)

\* Result<Response, reqwest::Error> of send().await
NoRes == [kind |-> "None", err |-> <<>>, status |-> 0,
          headers |-> [n \in ResponseHeaderNames |-> None]]
ResErr(e) == [kind |-> "Err", err |-> e, status |-> 0,
              headers |-> [n \in ResponseHeaderNames |-> None]]
ResOk(status, digest, link) ==
    [kind |-> "Ok", err |-> <<>>, status |-> status,
     headers |-> [n \in ResponseHeaderNames |->
                    IF n = "link" THEN link ELSE digest]]

\* Result<String, reqwest::Error> of text().await
NoBody == [kind |-> "None", text |-> <<>>, err |-> <<>>]
BodyOk(t) == [kind |-> "Ok", text |-> t, err |-> <<>>]
BodyErr(e) == [kind |-> "Err", text |-> <<>>, err |-> e]

\* what a call ends in: Ok(ResponseData), Err(MirrorError), or a panic
Pending == [kind |-> "Pending", data |-> <<>>, link |-> <<>>, msg |-> <<>>]
Ok(data, link) == [kind |-> "Ok", data |-> data, link |-> link, msg |-> <<>>]
Err(msg) == [kind |-> "Err", data |-> <<>>, link |-> <<>>, msg |-> msg]
Panic == [kind |-> "Panic", data |-> <<>>, link |-> <<>>, msg |-> <<>>]

(***************************************************************************)
(* The inputs of the model: what callers pass and what servers answer.     *)
(***************************************************************************)
URL_HTTPS == <<"h", "t", "t", "p", "s", ":", "/", "/", "r", "/", "v", "2">>
URL_HTTP == <<"h", "t", "t", "p", ":", "/", "/", "r", "/", "v", "2">>
\* a URL whose path contains the text https
URL_PATH ==
    <<"h", "t", "t", "p", "s", ":", "/", "/", "r", "/", "h", "t", "t", "p", "s">>
\* a URL whose scheme is written in upper case (schemes are case-insensitive)
URL_UPPER == <<"H", "T", "T", "P", "S", ":", "/", "/", "r", "/", "v", "2">>
Urls == {URL_HTTPS, URL_HTTP, URL_PATH, URL_UPPER}

TOKEN_EMPTY == <<>>
TOKEN == <<"t", "o", "k">>
\* a token holding a line feed, which no header value may hold
TOKEN_LF == <<"t", "LF">>
Tokens == {TOKEN_EMPTY, TOKEN, TOKEN_LF}

TRANSPORT_ERROR ==
    <<"c", "o", "n", "n", "e", "c", "t", "i", "o", "n", " ", "R", "e", "f", "u",
      "s", "e", "d">>
DIGEST == <<"s", "h", "a", "2", "5", "6", ":", "a", "b">>
\* a digest header value holding a byte outside ASCII
DIGEST_OBS == <<"s", "h", "a", "xE9">>
LINK_NEXT ==
    <<"<", "/", "v", "2", "/", "_", "c", "a", "t", "a", "l", "o", "g", "?", "l",
      "a", "s", "t", "=", "x", ">", ";", " ", "r", "e", "l", "=", "\"", "n", "e",
      "x", "t", "\"">>
LINK_PREV ==
    <<"<", "/", "p", ">", ";", " ", "r", "e", "l", "=", "\"", "p", "r", "e", "v",
      "\"">>
\* a Link value in which the annotation appears once the brackets are gone
LINK_SPLIT ==
    <<"<", "/", "t", ">", ";", " ", "r", "e", "l", "=", "<", "\"", "n", "e", "x",
      "t", "\"">>
\* a Link value holding a byte outside ASCII
LINK_OBS == <<"<", "/", "xE9", ">">>
BODY ==
    <<"{", " ", "\"", "t", "e", "s", "t", "\"", ":", " ", "\"", "h", "e", "l",
      "l", "o", "-", "w", "o", "r", "l", "d", "\"", " ", "}">>
BODY_ERROR ==
    <<"e", "r", "r", "o", "r", " ", "D", "e", "c", "o", "d", "i", "n", "g", " ",
      "b", "o", "d", "y">>

Statuses == {200, 201, 500}
DigestHeaders == {None, Some(DIGEST), Some(DIGEST_OBS)}
LinkHeaders ==
    {None, Some(LINK_NEXT), Some(LINK_PREV), Some(LINK_SPLIT), Some(LINK_OBS)}

\* every outcome of send().await: a transport failure or a response
SendResults ==
    {ResErr(TRANSPORT_ERROR)} \cup
    {ResOk(st, d, l) : st \in Statuses, d \in DigestHeaders, l \in LinkHeaders}

\* every outcome of text().await
BodyResults == {BodyOk(BODY), BodyOk(<<>>), BodyErr(BODY_ERROR)}

\* the smaller inputs of the specification with several calls in flight
ConcUrls == {URL_HTTPS}
ConcTokens == {TOKEN_EMPTY, TOKEN}
ConcSendResults ==
    {ResErr(TRANSPORT_ERROR), ResOk(500, None, None),
     ResOk(200, Some(DIGEST), Some(LINK_NEXT)), ResOk(200, None, None)}
ConcBodyResults == {BodyOk(BODY), BodyErr(BODY_ERROR)}

(***************************************************************************)
(* State: the arguments and locals of each get_details call, and where the *)
(* call stands.  ImplQueryImageInterface has no fields, so there is no     *)
(* state outside the calls.                                                *)
(***************************************************************************)
VARIABLES
    pc,          \* "idle", "send" (awaiting send), "text" (awaiting text), "done"
    url,         \* argument url
    token,       \* argument token
    e_tag,       \* argument e_tag
    header_map,  \* local header_map: the headers of the dispatched GET
    get_url,     \* local get_url: the URL of the dispatched GET
    res,         \* local res: the result of send().await
    link_info,   \* local link_info
    body,        \* local body: the result of text().await
    result       \* what the call ends in

vars == <<pc, url, token, e_tag, header_map, get_url, res, link_info, body, result>>

Init ==
    /\ pc = [c \in Calls |-> "idle"]
    /\ url = [c \in Calls |-> <<>>]
    /\ token = [c \in Calls |-> <<>>]
    /\ e_tag = [c \in Calls |-> FALSE]
    /\ header_map = [c \in Calls |-> EmptyHeaderMap]
    /\ get_url = [c \in Calls |-> <<>>]
    /\ res = [c \in Calls |-> NoRes]
    /\ link_info = [c \in Calls |-> <<>>]
    /\ body = [c \in Calls |-> NoBody]
    /\ result = [c \in Calls |-> Pending]

(***************************************************************************)
(* The pieces of get_details.                                              *)
(***************************************************************************)
\* format!("{} {}", "Bearer", token)
AuthorizationValue(t) == BEARER \o <<" ">> \o t

\* lines 38-49: the four inserts into header_map
BuildHeaders(t) ==
    [EmptyHeaderMap EXCEPT
        !["user-agent"] = Some(USER_AGENT_VALUE),
        !["authorization"] = Some(AuthorizationValue(t)),
        !["accept"] = Some(ACCEPT_VALUE),
        !["content-type"] = Some(CONTENT_TYPE_VALUE)]

\* GetUrl with the rewrite applied whether or not there is a token
GetUrl_Always(u, t) == replace(u, HTTPS, HTTP)

\* GetUrl rewriting the scheme only, as a URL-aware rewrite would
GetUrl_SchemeOnly(u, t) ==
    IF Len(t) = 0 /\ MatchAt(u, HTTPS, 1)
    THEN HTTP \o SubSeq(u, Len(HTTPS) + 1, Len(u))
    ELSE u

\* lines 50-54: the URL handed to client.get
GetUrl(u, t) == IF Len(t) = 0 THEN replace(u, HTTPS, HTTP) ELSE u

\* IsOk200 accepting every 2xx status, as StatusCode::is_success would
IsOk200_AnySuccess(r) == r.kind = "Ok" /\ r.status >= 200 /\ r.status <= 299

\* line 56: res.is_ok() && status == StatusCode::OK
IsOk200(r) == r.kind = "Ok" /\ r.status = 200

\* lines 68-79: link_info from headers.get("link"), once to_str succeeded
LinkInfo(link) ==
    IF link.some
    THEN replace(replace(replace(link.val, LT, <<>>), GT, <<>>), REL_NEXT, <<>>)
    ELSE <<>>

\* lines 96-98: the error of the else branch, for a response that arrived
StatusError(r) == Err(ERR_PREFIX \o StatusDisplay(r.status))

\* BodyError without the to_lowercase
BodyError_NoLower(b) == Err(ERR_BODY_PREFIX \o b.err)

\* lines 88-92: the error of a failed body read
BodyError(b) == Err(ERR_BODY_PREFIX \o to_lowercase(b.err))

\* lines 56-79 and 95-99: what the call does with res up to its next await;
\* the record gives the next pc, link_info and the result
AfterSend(r, etag) ==
    IF IsOk200(r)
    THEN IF etag
         THEN LET digest == r.headers["docker-content-digest"] IN
              IF ~digest.some \/ ~HeaderValueToStrOk(digest.val)
              THEN [pc |-> "done", link_info |-> <<>>, result |-> Panic]
              ELSE [pc |-> "done", link_info |-> <<>>,
                    result |-> Ok(digest.val, <<>>)]
         ELSE LET link == r.headers["link"] IN
              IF link.some /\ ~HeaderValueToStrOk(link.val)
              THEN [pc |-> "done", link_info |-> <<>>, result |-> Panic]
              ELSE [pc |-> "text", link_info |-> LinkInfo(link),
                    result |-> Pending]
    ELSE IF r.kind = "Err"
         THEN [pc |-> "done", link_info |-> <<>>, result |-> Panic]
         ELSE [pc |-> "done", link_info |-> <<>>, result |-> StatusError(r)]

\* lines 81-93: the result once text().await has answered
AfterText(b, link) == IF b.kind = "Ok" THEN Ok(b.text, link) ELSE BodyError(b)

(***************************************************************************)
(* Actions: one per stretch of get_details between its await points.       *)
(***************************************************************************)
\* lines 37-55: the call starts, builds the headers and the URL and
\* dispatches the GET; HeaderValue::from_str(..).unwrap() panics on a token
\* that is no header value
Start(c, U, T) ==
    /\ pc[c] = "idle"
    /\ \E u \in U, t \in T, e \in BOOLEAN :
        /\ url' = [url EXCEPT ![c] = u]
        /\ token' = [token EXCEPT ![c] = t]
        /\ e_tag' = [e_tag EXCEPT ![c] = e]
        /\ IF HeaderValueFromStrOk(AuthorizationValue(t))
           THEN /\ header_map' = [header_map EXCEPT ![c] = BuildHeaders(t)]
                /\ get_url' = [get_url EXCEPT ![c] = GetUrl(u, t)]
                /\ pc' = [pc EXCEPT ![c] = "send"]
                /\ result' = result
           ELSE /\ header_map' = [header_map EXCEPT
                                    ![c]["user-agent"] = Some(USER_AGENT_VALUE)]
                /\ get_url' = get_url
                /\ pc' = [pc EXCEPT ![c] = "done"]
                /\ result' = [result EXCEPT ![c] = Panic]
    /\ UNCHANGED <<res, link_info, body>>

\* line 55 onwards: send().await answers, and the call runs to its end or
\* to text().await
Respond(c, R) ==
    /\ pc[c] = "send"
    /\ \E r \in R :
        LET after == AfterSend(r, e_tag[c]) IN
        /\ res' = [res EXCEPT ![c] = r]
        /\ link_info' = [link_info EXCEPT ![c] = after.link_info]
        /\ result' = [result EXCEPT ![c] = after.result]
        /\ pc' = [pc EXCEPT ![c] = after.pc]
    /\ UNCHANGED <<url, token, e_tag, header_map, get_url, body>>

\* ReadBody taking link_info from a place the calls share, so that it may
\* hold what another call left there
ReadBody_SharedLink(c, B) ==
    /\ pc[c] = "text"
    /\ \E b \in B, d \in Calls :
        /\ body' = [body EXCEPT ![c] = b]
        /\ result' = [result EXCEPT ![c] = AfterText(b, link_info[d])]
    /\ pc' = [pc EXCEPT ![c] = "done"]
    /\ UNCHANGED <<url, token, e_tag, header_map, get_url, res, link_info>>

\* lines 80-93: text().await answers and the call returns
ReadBody(c, B) ==
    /\ pc[c] = "text"
    /\ \E b \in B :
        /\ body' = [body EXCEPT ![c] = b]
        /\ result' = [result EXCEPT ![c] = AfterText(b, link_info[c])]
    /\ pc' = [pc EXCEPT ![c] = "done"]
    /\ UNCHANGED <<url, token, e_tag, header_map, get_url, res, link_info>>

\* the caller has taken the result; the locals are dropped and the slot is
\* free for the next call
Return(c) ==
    /\ pc[c] = "done"
    /\ pc' = [pc EXCEPT ![c] = "idle"]
    /\ url' = [url EXCEPT ![c] = <<>>]
    /\ token' = [token EXCEPT ![c] = <<>>]
    /\ e_tag' = [e_tag EXCEPT ![c] = FALSE]
    /\ header_map' = [header_map EXCEPT ![c] = EmptyHeaderMap]
    /\ get_url' = [get_url EXCEPT ![c] = <<>>]
    /\ res' = [res EXCEPT ![c] = NoRes]
    /\ link_info' = [link_info EXCEPT ![c] = <<>>]
    /\ body' = [body EXCEPT ![c] = NoBody]
    /\ result' = [result EXCEPT ![c] = Pending]

\* one caller, one call at a time, every input
Next ==
    \/ Start(1, Urls, Tokens)
    \/ Respond(1, SendResults)
    \/ ReadBody(1, BodyResults)
    \/ Return(1)

Spec == Init /\ [][Next]_vars

\* NumCalls callers whose calls interleave at the await points
NextConc ==
    \E c \in Calls :
        \/ Start(c, ConcUrls, ConcTokens)
        \/ Respond(c, ConcSendResults)
        \/ ReadBody(c, ConcBodyResults)
        \/ Return(c)

SpecConc == Init /\ [][NextConc]_vars

(***************************************************************************)
(* Vocabulary of the properties.                                           *)
(***************************************************************************)
\* the GET of call c has been dispatched (line 55 was reached)
Dispatched(c) ==
    \/ pc[c] \in {"send", "text"}
    \/ pc[c] = "done" /\ res[c].kind # "None"

\* pat occurs somewhere in s
Contains(s, pat) == \E i \in 1..(Len(s) + 1) : MatchAt(s, pat, i)

\* the positions at which pat occurs in s
Occurrences(s, pat) == {i \in 1..Len(s) : MatchAt(s, pat, i)}

\* s without the characters at the positions in D
RECURSIVE DeleteAt(_, _)
DeleteAt(s, D) ==
    IF s = <<>> THEN <<>>
    ELSE LET front == DeleteAt(SubSeq(s, 1, Len(s) - 1), D) IN
         IF Len(s) \in D THEN front ELSE front \o <<s[Len(s)]>>

\* the scheme of a URL as a URL parser reads it: the text before the first
\* colon, in lower case (schemes are case-insensitive)
Scheme(u) ==
    IF \E i \in 1..Len(u) : u[i] = ":"
    THEN to_lowercase(SubSeq(u, 1,
            (CHOOSE i \in 1..Len(u) :
                u[i] = ":" /\ \A j \in 1..(i - 1) : u[j] # ":") - 1))
    ELSE <<>>

\* the scheme of a URL as it is written
SchemeText(u) ==
    IF \E i \in 1..Len(u) : u[i] = ":"
    THEN SubSeq(u, 1,
            (CHOOSE i \in 1..Len(u) :
                u[i] = ":" /\ \A j \in 1..(i - 1) : u[j] # ":") - 1)
    ELSE <<>>

\* no character of s from position i on is an upper-case letter
NoUpperFrom(s, i) == \A j \in i..Len(s) : Code(s[j]) < 65 \/ Code(s[j]) > 90

\* LINK_NEXT as a bare URL
LINK_NEXT_BARE ==
    <<"/", "v", "2", "/", "_", "c", "a", "t", "a", "l", "o", "g", "?", "l", "a",
      "s", "t", "=", "x">>
URL_PATH_HTTP == <<"h", "t", "t", "p", ":", "/", "/", "r", "/", "h", "t", "t", "p">>
BODY_ERROR_LOWER ==
    <<"e", "r", "r", "o", "r", " ", "d", "e", "c", "o", "d", "i", "n", "g", " ",
      "b", "o", "d", "y">>

(***************************************************************************)
(* C3: a call that received a response whose status is not 200 returns    *)
(* Err, and the message of the error contains the status; it never        *)
(* returns Ok, whatever the token and e_tag.                               *)
(***************************************************************************)
C3_NonOkStatusIsErr ==
    \A c \in Calls :
        (pc[c] \in {"text", "done"} /\ res[c].kind = "Ok" /\ res[c].status # 200)
            => /\ pc[c] = "done"
               /\ result[c].kind = "Err"
               /\ Contains(result[c].msg, Digits(res[c].status))

C3_Witness ==
    \E c \in Calls :
        /\ pc[c] = "done"
        /\ res[c].kind = "Ok"
        /\ res[c].status = 500
        /\ result[c].kind = "Err"
        /\ Contains(result[c].msg, <<"5", "0", "0">>)

(***************************************************************************)
(* C1: with e_tag false, a 200 response and a readable body, the call      *)
(* returns Ok; data is the body text, and link is the Link header without  *)
(* its '<', '>' and '; rel="next"' (the empty text when the header is      *)
(* absent).                                                                *)
(***************************************************************************)
C1_BodyModeReturnsBodyAndLink ==
    \A c \in Calls :
        (pc[c] = "done" /\ ~e_tag[c] /\ IsOk200(res[c]) /\ body[c].kind # "Err")
            => /\ result[c].kind = "Ok"
               /\ result[c].data = body[c].text
               /\ result[c].link =
                    IF res[c].headers["link"].some
                    THEN LET bare == SelectSeq(res[c].headers["link"].val,
                                        LAMBDA ch : ch \notin {"<", ">"}) IN
                         DeleteAt(bare,
                            {i + k : i \in Occurrences(bare, REL_NEXT),
                                     k \in 0..(Len(REL_NEXT) - 1)})
                    ELSE <<>>

(***************************************************************************)
(* C2: with e_tag true and a 200 response that sets docker-content-digest, *)
(* the call returns Ok; data is the value of that header and link is the   *)
(* empty text, whatever Link header the response carries.                  *)
(***************************************************************************)
C2_DigestModeReturnsDigest ==
    \A c \in Calls :
        (pc[c] = "done" /\ e_tag[c] /\ IsOk200(res[c])
            /\ res[c].headers["docker-content-digest"].some)
            => result[c] = Ok(res[c].headers["docker-content-digest"].val, <<>>)

(***************************************************************************)
(* C4: a call whose GET fails at transport level returns Err, and the      *)
(* message holds the transport error in lower case; the call ends in no    *)
(* other way.                                                              *)
(***************************************************************************)
C4_TransportFailureIsErr ==
    \A c \in Calls :
        (pc[c] = "done" /\ res[c].kind = "Err")
            => /\ result[c].kind = "Err"
               /\ Contains(result[c].msg, to_lowercase(res[c].err))

(***************************************************************************)
(* C5 as stated: with an empty token the dispatched URL has scheme http    *)
(* even if the supplied URL had scheme https; with a non-empty token the   *)
(* dispatched URL is the supplied URL.                                     *)
(***************************************************************************)
C5_Original ==
    \A c \in Calls :
        Dispatched(c)
            => /\ token[c] = <<>> => Scheme(get_url[c]) = HTTP
               /\ token[c] # <<>> => get_url[c] = url[c]

(***************************************************************************)
(* C5 amended: with an empty token the dispatched URL has scheme http when *)
(* the supplied scheme is http or is written exactly as lower-case https;  *)
(* a supplied scheme https written with an upper-case letter is dispatched *)
(* as https.  With a non-empty token the dispatched URL is the supplied    *)
(* URL.                                                                    *)
(***************************************************************************)
C5_SchemeRewrite ==
    \A c \in Calls :
        Dispatched(c)
            => /\ (token[c] = <<>>
                    /\ (Scheme(url[c]) = HTTP \/ SchemeText(url[c]) = HTTPS))
                    => Scheme(get_url[c]) = HTTP
               /\ (token[c] = <<>>
                    /\ Scheme(url[c]) = HTTPS /\ SchemeText(url[c]) # HTTPS)
                    => Scheme(get_url[c]) = HTTPS
               /\ token[c] # <<>> => get_url[c] = url[c]

C5_Witness ==
    \E c \in Calls :
        /\ Dispatched(c)
        /\ token[c] = <<>>
        /\ url[c] = URL_HTTPS
        /\ get_url[c] = URL_HTTP

(***************************************************************************)
(* C6: the dispatched GET carries an Authorization header exactly when the *)
(* token is not empty, and its value is then "Bearer <token>".             *)
(***************************************************************************)
C6_AuthorizationOnlyWithToken ==
    \A c \in Calls :
        Dispatched(c)
            => /\ header_map[c]["authorization"].some <=> token[c] # <<>>
               /\ header_map[c]["authorization"].some
                    => header_map[c]["authorization"].val
                        = BEARER \o <<" ">> \o token[c]

(***************************************************************************)
(* C7: with e_tag true and a 200 response without docker-content-digest,   *)
(* the call ends in a returned Err (not in Ok, and in no other way).       *)
(***************************************************************************)
C7_MissingDigestIsErr ==
    \A c \in Calls :
        (pc[c] = "done" /\ e_tag[c] /\ IsOk200(res[c])
            /\ ~res[c].headers["docker-content-digest"].some)
            => result[c].kind = "Err"

(***************************************************************************)
(* C8: two calls with the same arguments that got the same answers from    *)
(* the server end in the same result, whatever calls ran before them or    *)
(* run beside them.                                                        *)
(***************************************************************************)
C8_Stateless ==
    \A c1, c2 \in Calls :
        (/\ pc[c1] = "done" /\ pc[c2] = "done"
         /\ url[c1] = url[c2] /\ token[c1] = token[c2] /\ e_tag[c1] = e_tag[c2]
         /\ res[c1] = res[c2] /\ body[c1] = body[c2])
            => result[c1] = result[c2]

C8_Witness ==
    \E c1, c2 \in Calls :
        /\ c1 # c2
        /\ pc[c1] = "done" /\ pc[c2] = "done"
        /\ url[c1] = url[c2] /\ token[c1] = token[c2] /\ e_tag[c1] = e_tag[c2]
        /\ res[c1] = res[c2] /\ body[c1] = body[c2]
        /\ result[c1].kind = "Ok"
        /\ result[c1].link = LINK_NEXT_BARE
        /\ result[c2] = result[c1]

(***************************************************************************)
(* C9: with e_tag false and a 200 response, a failed read of the body      *)
(* makes the call return Err whose message holds the read error in lower   *)
(* case; neither data nor the link already extracted is returned.          *)
(***************************************************************************)
C9_BodyReadFailureIsErr ==
    \A c \in Calls :
        (pc[c] = "done" /\ body[c].kind = "Err")
            => /\ ~e_tag[c] /\ IsOk200(res[c])
               /\ result[c].kind = "Err"
               /\ result[c].data = <<>> /\ result[c].link = <<>>
               /\ NoUpperFrom(result[c].msg, Len(ERR_BODY_PREFIX) + 1)
               /\ body[c].err = BODY_ERROR
                    => Contains(result[c].msg, BODY_ERROR_LOWER)

C9_Witness ==
    \E c \in Calls :
        /\ pc[c] = "done"
        /\ body[c] = BodyErr(BODY_ERROR)
        /\ res[c].headers["link"] = Some(LINK_NEXT)
        /\ result[c].kind = "Err"

(***************************************************************************)
(* C10: with an empty token the dispatched URL is the supplied URL with    *)
(* every occurrence of https, wherever it stands, replaced by http (the s  *)
(* of each occurrence is dropped); a URL without https is dispatched       *)
(* unchanged.                                                              *)
(***************************************************************************)
C10_TextualRewrite ==
    \A c \in Calls :
        (Dispatched(c) /\ token[c] = <<>>)
            => /\ get_url[c] =
                    DeleteAt(url[c], {i + 4 : i \in Occurrences(url[c], HTTPS)})
               /\ Occurrences(url[c], HTTPS) = {} => get_url[c] = url[c]

C10_Witness ==
    \E c \in Calls :
        /\ Dispatched(c)
        /\ token[c] = <<>>
        /\ url[c] = URL_PATH
        /\ get_url[c] = URL_PATH_HTTP

====
